---- MODULE Spec2Model ----
(***************************************************************************)
(* VecSlice: a growable window [start, end) over a backing value that is   *)
(* either a Vec or another VecSlice (src/src/lib.rs).  Every mutation is   *)
(* delegated down the chain of windows to the root Vec and the window      *)
(* bounds are adjusted on the way.                                         *)
(*                                                                         *)
(* usize arithmetic is that of a build with overflow checks (the dev and   *)
(* test profiles): a subtraction that would go below zero panics.  No sum  *)
(* of the model comes near usize::MAX.                                     *)
(***************************************************************************)
EXTENDS Integers, Sequences, FiniteSets, TLC

\* Bounds of the model.
MaxLen == 2         \* longest Vec: initially <<>>, <<1>> .. <<1, .., MaxLen>>,
                    \* and an insert is issued only while the Vec is shorter

MaxBound == MaxLen          \* largest number written in a range bound or an index
Levels == 1..2              \* windows nested over the root Vec
NewValues == {8, 9}         \* the elements inserted through windows

VARIABLES
    vec,            \* the root Vec<T>
    wins,           \* live windows, outermost first: wins[1] borrows vec,
                    \* wins[i+1] borrows wins[i]; each is [start, end]
    drain,          \* the live std::vec::Drain, if any
    last            \* the call made by the last step, how it ended, what it returned

vars == <<vec, wins, drain, last>>

----------------------------------------------------------------------------
\* Sequences (Vec<T> of the standard library)

\* Vec::insert(index, element), index <= len
SeqInsert(s, index, element) ==
    SubSeq(s, 1, index) \o <<element>> \o SubSeq(s, index + 1, Len(s))

\* Vec::remove(index), index < len
SeqRemove(s, index) == SubSeq(s, 1, index) \o SubSeq(s, index + 2, Len(s))

\* s without the positions lo .. hi-1 (0-based)
SeqCut(s, lo, hi) == SubSeq(s, 1, lo) \o SubSeq(s, hi + 1, Len(s))

\* s[..hi]
SeqSliceFromStart(s, lo, hi) == SubSeq(s, 1, hi)

\* s[lo..hi] (0-based, half open)
SeqSlice(s, lo, hi) == SubSeq(s, lo + 1, hi)

----------------------------------------------------------------------------
\* Ranges: core::ops::RangeBounds<usize> as a pair of core::ops::Bound

Unbounded == [kind |-> "Unbounded", n |-> 0]
Included(n) == [kind |-> "Included", n |-> n]
Excluded(n) == [kind |-> "Excluded", n |-> n]

Bounds == {Unbounded} \cup {Included(n) : n \in 0..MaxBound}
                      \cup {Excluded(n) : n \in 0..MaxBound}

\* the ranges the range syntax writes: .., s.., ..e, ..=e, s..e, s..=e
Ranges == [start_bound : {Unbounded} \cup {Included(n) : n \in 0..MaxBound},
           end_bound : Bounds]

\* every pair of bounds a RangeBounds value can give, (Excluded(s), e) included
RangeBoundsPairs == [start_bound : Bounds, end_bound : Bounds]

\* lo..hi
Range(lo, hi) == [start_bound |-> Included(lo), end_bound |-> Excluded(hi)]

RangeFull == [start_bound |-> Unbounded, end_bound |-> Unbounded]

----------------------------------------------------------------------------
\* The bound translator

\* translate_range without the + 1 of an included end bound
TranslateRangeOpenEnd(range, start, end) ==
    LET sb == range.start_bound
        eb == range.end_bound
    IN  <<IF sb.kind = "Unbounded" THEN start
          ELSE IF sb.kind = "Included" THEN start + sb.n ELSE start + sb.n + 1,
          IF eb.kind = "Unbounded" THEN end ELSE start + eb.n>>

\* translate_range taking an excluded start bound as an included one
TranslateRangeClosedStart(range, start, end) ==
    LET sb == range.start_bound
        eb == range.end_bound
    IN  <<IF sb.kind = "Unbounded" THEN start ELSE start + sb.n,
          CASE eb.kind = "Unbounded" -> end
            [] eb.kind = "Excluded" -> start + eb.n
            [] eb.kind = "Included" -> start + eb.n + 1>>

\* VecSlice::translate_range: the half-open pair (lo, hi) of a range taken
\* relative to the origin (start, end)
TranslateRange(range, start, end) ==
    LET sb == range.start_bound
        eb == range.end_bound
        s == sb.n
        e == eb.n
    IN  CASE sb.kind = "Included" /\ eb.kind = "Included" -> <<start + s, start + e + 1>>
          [] sb.kind = "Included" /\ eb.kind = "Excluded" -> <<start + s, start + e>>
          [] sb.kind = "Included" /\ eb.kind = "Unbounded" -> <<start + s, end>>
          [] sb.kind = "Excluded" /\ eb.kind = "Included" -> <<start + s + 1, start + e + 1>>
          [] sb.kind = "Excluded" /\ eb.kind = "Excluded" -> <<start + s + 1, start + e>>
          [] sb.kind = "Excluded" /\ eb.kind = "Unbounded" -> <<start + s + 1, end>>
          [] sb.kind = "Unbounded" /\ eb.kind = "Included" -> <<start, start + e + 1>>
          [] sb.kind = "Unbounded" /\ eb.kind = "Excluded" -> <<start, start + e>>
          [] sb.kind = "Unbounded" /\ eb.kind = "Unbounded" -> <<start, end>>

----------------------------------------------------------------------------
\* The chain of handles.  A call runs on a copy st of (wins, vec); st.ok turns
\* FALSE where the call panics, and what was written before the panic stays.
\* Level 0 is the root Vec, level i > 0 is the window wins[i].

St(w, v) == [wins |-> w, vec |-> v, ok |-> TRUE, ret |-> <<>>]

Panic(st) == [st EXCEPT !.ok = FALSE]

\* Slice::len: Vec::len, or end - start of a window
LenOf(st, i) ==
    IF i = 0
    THEN [ok |-> TRUE, val |-> Len(st.vec)]
    ELSE [ok |-> st.wins[i].end >= st.wins[i].start,
          val |-> st.wins[i].end - st.wins[i].start]

\* Slice::as_slice: the whole Vec, or [start..end] of the backing value's slice
RECURSIVE AsSlice(_, _)
AsSlice(st, i) ==
    IF i = 0
    THEN [ok |-> TRUE, val |-> st.vec]
    ELSE LET o == AsSlice(st, i - 1)
             w == st.wins[i]
         IN  IF o.ok /\ w.start <= w.end /\ w.end <= Len(o.val)
             THEN [ok |-> TRUE, val |-> SeqSlice(o.val, w.start, w.end)]
             ELSE [ok |-> FALSE, val |-> <<>>]

\* the assertion of insert, one too wide
InsertIndexOkPastEnd(index, len) == index <= len + 1

\* assert!(index <= self.len()) of VecSlice::insert
InsertIndexOk(index, len) == index <= len

\* insert at the window-relative index, the window's start forgotten
InsertTargetNoStart(start, index) == index

\* the position VecSlice::insert hands to its backing value
InsertTarget(start, index) == start + index

\* insert without the adjustment of end
InsertedEndKept(end) == end

\* self.end += 1 of VecSlice::insert
InsertedEnd(end) == end + 1

\* Slice::insert
RECURSIVE InsertAt(_, _, _, _)
InsertAt(st, i, index, element) ==
    IF i = 0
    THEN IF index <= Len(st.vec)
         THEN [st EXCEPT !.vec = SeqInsert(@, index, element)]
         ELSE Panic(st)
    ELSE LET w == st.wins[i]
             l == LenOf(st, i)
         IN  IF ~l.ok \/ ~InsertIndexOk(index, l.val)
             THEN Panic(st)
             ELSE LET s1 == InsertAt(st, i - 1, InsertTarget(w.start, index), element)
                  IN  IF ~s1.ok
                      THEN s1
                      ELSE [s1 EXCEPT !.wins[i].end = InsertedEnd(@)]

\* assert!(index <= self.len()) of VecSlice::remove
RemoveIndexOk(index, len) == index <= len

\* remove at the window-relative index, the window's start forgotten
RemoveTargetNoStart(start, index) == index

\* the position VecSlice::remove hands to its backing value
RemoveTarget(start, index) == start + index

\* self.end -= 1 of VecSlice::remove
RemovedEnd(end) == end - 1

\* Slice::remove
RECURSIVE RemoveAt(_, _, _)
RemoveAt(st, i, index) ==
    IF i = 0
    THEN IF index < Len(st.vec)
         THEN [st EXCEPT !.vec = SeqRemove(@, index), !.ret = <<st.vec[index + 1]>>]
         ELSE Panic(st)
    ELSE LET w == st.wins[i]
             l == LenOf(st, i)
         IN  IF ~l.ok \/ ~RemoveIndexOk(index, l.val)
             THEN Panic(st)
             ELSE IF w.end < 1
             THEN Panic(st)
             ELSE RemoveAt([st EXCEPT !.wins[i].end = RemovedEnd(@)],
                           i - 1, RemoveTarget(w.start, index))

\* drain without the adjustment of end
DrainedEndKept(end, lo, hi) == end

\* end adjusted at the call and once more for each drained element
DrainedEndTwice(end, lo, hi) == end - 2 * (hi - lo)

\* self.end -= end - start of VecSlice::drain
DrainedEnd(end, lo, hi) == end - (hi - lo)

\* start..=end handed on where drain hands start..end
DrainRangeInclusive(lo, hi) == [start_bound |-> Included(lo), end_bound |-> Included(hi)]

\* the range start..end VecSlice::drain hands to its backing value
DrainRange(lo, hi) == Range(lo, hi)

\* Slice::drain; st.ret is the range (lo, hi) of the Vec the Drain was made over
RECURSIVE DrainAt(_, _, _)
DrainAt(st, i, range) ==
    IF i = 0
    THEN LET t == TranslateRange(range, 0, Len(st.vec))
         IN  IF t[1] <= t[2] /\ t[2] <= Len(st.vec)
             THEN [st EXCEPT !.ret = t]
             ELSE Panic(st)
    ELSE LET w == st.wins[i]
             t == TranslateRange(range, w.start, w.end)
         IN  IF t[2] < t[1] \/ w.end < t[2] - t[1]
             THEN Panic(st)
             ELSE DrainAt([st EXCEPT !.wins[i].end = DrainedEnd(@, t[1], t[2])],
                          i - 1, DrainRange(t[1], t[2]))

\* the position in the Vec of the first element of the window i of st
RECURSIVE Offset(_, _)
Offset(st, i) == IF i = 0 THEN 0 ELSE st.wins[i].start + Offset(st, i - 1)

\* a sort that leaves the slice as it is
SliceSortKept(s) == s

\* [T]::sort: ascending, equal elements in their previous order
RECURSIVE SliceSort(_)
SliceSort(s) ==
    IF s = <<>>
    THEN <<>>
    ELSE LET rest == SliceSort(Tail(s))
             k == Cardinality({j \in 1..Len(rest) : rest[j] < Head(s)})
         IN  SubSeq(rest, 1, k) \o <<Head(s)>> \o SubSeq(rest, k + 1, Len(rest))

\* Slice::sort / sort_unstable: self.as_mut_slice().sort(), in place in the Vec
\* (elements are integers: equal ones cannot be told apart)
SortAt(st, i) ==
    LET v == AsSlice(st, i)
        off == Offset(st, i)
    IN  IF v.ok
        THEN [st EXCEPT !.vec = SubSeq(@, 1, off) \o SliceSort(v.val)
                                  \o SubSeq(@, off + Len(v.val) + 1, Len(@))]
        ELSE Panic(st)

\* Index<usize> (src/src/index.rs), written for a window st.wins[1] over the Vec:
\* &self.vec[self.start + index]
IndexAt(st, index) ==
    LET pos == st.wins[1].start + index
    IN  IF pos < Len(st.vec)
        THEN [st EXCEPT !.ret = <<st.vec[pos + 1]>>]
        ELSE Panic(st)

\* Index<Range<usize>> and the other range shapes (src/src/index.rs):
\* &self.vec[start..end] with (start, end) from translate_range
IndexRangeAt(st, range) ==
    LET t == TranslateRange(range, st.wins[1].start, st.wins[1].end)
    IN  IF t[1] <= t[2] /\ t[2] <= Len(st.vec)
        THEN [st EXCEPT !.ret = SeqSlice(st.vec, t[1], t[2])]
        ELSE Panic(st)

\* clear draining nothing
ClearRangeEmpty == Range(0, 0)

\* the range .. of Slice::clear
ClearRange == RangeFull

\* Slice::clear: self.drain(..); the Drain is dropped at the end of the statement
\* and takes its whole range out of the Vec
ClearAt(st, i) ==
    LET d == DrainAt(st, i, ClearRange)
    IN  IF d.ok
        THEN [d EXCEPT !.vec = SeqCut(@, d.ret[1], d.ret[2]), !.ret = <<>>]
        ELSE d

----------------------------------------------------------------------------
\* State

NoDrain == [live |-> FALSE, lo |-> 0, hi |-> 0, yielded |-> <<>>, wins0 |-> <<>>]

\* what the last step called, how it ended and what it returned (an Option, or
\* all a dropped Drain had yielded, out of the number it was to remove; for a
\* clear, the number it removed; for a sort, the number of elements it moved)
Call(op, ok, ret) ==
    [op |-> op, status |-> IF ok THEN "ok" ELSE "panic", ret |-> IF ok THEN ret ELSE <<>>,
     designated |-> 0]

\* the handle calls are made on: the innermost window
Top == Len(wins)

Now == St(wins, vec)

\* start <= end <= backing.len() for the windows 1 .. i of st
WellFormed(st, i) ==
    \A j \in 1..i :
        /\ st.wins[j].start <= st.wins[j].end
        /\ st.wins[j].end <= LenOf(st, j - 1).val

\* a window used while a Drain made through it is live
UsableDuringDrain == WellFormed(Now, Top)

\* The innermost window is used only while no Drain borrows it (drain takes
\* &mut self for the Drain's lifetime) and, by the client, only while the chain
\* of windows is well formed; a chain that a call has broken can only be dropped.
Usable == ~drain.live /\ WellFormed(Now, Top)

Indices == 0..MaxBound

Init ==
    /\ vec \in {[i \in 1..n |-> i] : n \in 0..MaxLen}
    /\ wins = <<>>
    /\ drain = NoDrain
    /\ last = Call("init", TRUE, <<>>)

\* Commit the outcome st of a call on the innermost window.
Commit(st, call) ==
    /\ vec' = st.vec
    /\ wins' = st.wins
    /\ last' = call
    /\ UNCHANGED drain

----------------------------------------------------------------------------
\* Operations

\* VecSlice::new(range, original) with the handle i of st as original: the new
\* window is the innermost one
NewAt(st, i, range) ==
    LET l == LenOf(st, i)
        t == TranslateRange(range, 0, l.val)
    IN  IF l.ok
        THEN [st EXCEPT !.wins = Append(SubSeq(st.wins, 1, i), [start |-> t[1], end |-> t[2]])]
        ELSE Panic(st)

\* Slice::vecslice(range) on the innermost handle
New(range) ==
    /\ Usable
    /\ Top + 1 \in Levels
    /\ LET st == NewAt(Now, Top, range)
       IN  /\ wins' = st.wins
           /\ last' = Call("new", st.ok, <<>>)
    /\ UNCHANGED <<vec, drain>>

\* vecslice_at_tail(): self.vecslice(self.len()..self.len())
VecsliceAtTail == New(Range(LenOf(Now, Top).val, LenOf(Now, Top).val))

\* vecslice_at_front(): self.vecslice(0..0)
VecsliceAtFront == New(Range(0, 0))

\* the innermost window goes out of scope: its borrow ends
DropWindow ==
    /\ ~drain.live
    /\ Top > 0
    /\ wins' = SubSeq(wins, 1, Top - 1)
    /\ last' = Call("drop", TRUE, <<>>)
    /\ UNCHANGED <<vec, drain>>

\* insert(index, element)
Insert(index, element) ==
    /\ Usable
    /\ Top > 0
    /\ Len(vec) < MaxLen
    /\ LET st == InsertAt(Now, Top, index, element)
       IN  Commit(st, Call("insert", st.ok, <<>>))

\* push_back inserting at the front
PushBackAtFront(st, i, element) == InsertAt(st, i, 0, element)

\* Slice::push_back: insert(self.len(), element)
PushBackAt(st, i, element) ==
    LET l == LenOf(st, i)
    IN  IF l.ok THEN InsertAt(st, i, l.val, element) ELSE Panic(st)

\* push_back(element)
PushBack(element) ==
    /\ Usable
    /\ Top > 0
    /\ Len(vec) < MaxLen
    /\ LET st == PushBackAt(Now, Top, element)
       IN  Commit(st, Call("push_back", st.ok, <<>>))

\* push_front(element): insert(0, element)
PushFront(element) ==
    /\ Usable
    /\ Top > 0
    /\ Len(vec) < MaxLen
    /\ LET st == InsertAt(Now, Top, 0, element)
       IN  Commit(st, Call("push_front", st.ok, <<>>))

\* remove(index)
Remove(index) ==
    /\ Usable
    /\ Top > 0
    /\ LET st == RemoveAt(Now, Top, index)
       IN  Commit(st, Call("remove", st.ok, st.ret))

\* pop_back taking the first element
PopBackIndexFirst(len) == len - len

\* self.len() - 1 of Slice::pop_back
PopBackIndex(len) == len - 1

\* Slice::pop_back: None on an empty window, else Some(remove(len - 1))
PopBackAt(st, i) ==
    LET l == LenOf(st, i)
    IN  IF ~l.ok THEN Panic(st)
        ELSE IF l.val > 0 THEN RemoveAt(st, i, PopBackIndex(l.val))
        ELSE st

\* pop_back()
PopBack ==
    /\ Usable
    /\ Top > 0
    /\ LET st == PopBackAt(Now, Top)
       IN  Commit(st, Call("pop_back", st.ok, st.ret))

\* pop_front(): None on an empty window, else Some(remove(0))
PopFront ==
    /\ Usable
    /\ Top > 0
    /\ LET l == LenOf(Now, Top)
           st == IF ~l.ok THEN Panic(Now)
                 ELSE IF l.val > 0 THEN RemoveAt(Now, Top, 0)
                 ELSE Now
       IN  Commit(st, Call("pop_front", st.ok, st.ret))

\* drain(range): the bounds are adjusted and the Drain of the Vec is returned
DrainCall(range) ==
    /\ Usable
    /\ Top > 0
    /\ LET st == DrainAt(Now, Top, range)
       IN  /\ wins' = st.wins
           /\ drain' = IF st.ok
                       THEN [live |-> TRUE, lo |-> st.ret[1], hi |-> st.ret[2],
                             yielded |-> <<>>, wins0 |-> wins]
                       ELSE NoDrain
           /\ last' = Call("drain", st.ok, <<>>)
    /\ UNCHANGED vec

\* clear()
Clear ==
    /\ Usable
    /\ Top > 0
    /\ LET st == ClearAt(Now, Top)
       IN  Commit(st, [Call("clear", st.ok, <<>>) EXCEPT
                               !.designated = Len(vec) - Len(st.vec)])

\* Drain::next: the next element of the drained range, None after the last
DrainNext ==
    /\ drain.live
    /\ LET k == Len(drain.yielded)
       IN  IF k < drain.hi - drain.lo
           THEN /\ drain' = [drain EXCEPT !.yielded = Append(@, vec[drain.lo + k + 1])]
                /\ last' = Call("next", TRUE, <<vec[drain.lo + k + 1]>>)
           ELSE /\ drain' = drain
                /\ last' = Call("next", TRUE, <<>>)
    /\ UNCHANGED <<vec, wins>>

\* the Drain is dropped: the whole range leaves the Vec, the window is usable again
DrainDrop ==
    /\ drain.live
    /\ vec' = SeqCut(vec, drain.lo, drain.hi)
    /\ drain' = NoDrain
    /\ last' = [Call("drain_drop", TRUE, drain.yielded) EXCEPT
                    !.designated = drain.hi - drain.lo]
    /\ UNCHANGED wins

\* the positions at which two Vecs of one length differ
Moved(v, w) == Cardinality({k \in 1..Len(v) : v[k] # w[k]})

\* sort()
Sort ==
    /\ Usable
    /\ Top > 0
    /\ LET st == SortAt(Now, Top)
       IN  Commit(st, [Call("sort", st.ok, <<>>) EXCEPT !.designated = Moved(vec, st.vec)])

\* sort_unstable()
SortUnstable ==
    /\ Usable
    /\ Top > 0
    /\ LET st == SortAt(Now, Top)
       IN  Commit(st, [Call("sort_unstable", st.ok, <<>>) EXCEPT
                               !.designated = Moved(vec, st.vec)])

\* slice[index]
Index(index) ==
    /\ Usable
    /\ Top = 1
    /\ LET st == IndexAt(Now, index)
       IN  Commit(st, Call("index", st.ok, st.ret))

\* &slice[range]
IndexRange(range) ==
    /\ Usable
    /\ Top = 1
    /\ LET st == IndexRangeAt(Now, range)
       IN  Commit(st, Call("index_range", st.ok, st.ret))

Next ==
    \/ \E range \in Ranges : New(range)
    \/ VecsliceAtTail
    \/ VecsliceAtFront
    \/ DropWindow
    \/ \E index \in Indices, element \in NewValues : Insert(index, element)
    \/ \E element \in NewValues : PushBack(element)
    \/ \E element \in NewValues : PushFront(element)
    \/ \E index \in Indices : Remove(index)
    \/ PopBack
    \/ PopFront
    \/ \E range \in Ranges : DrainCall(range)
    \/ Clear
    \/ DrainNext
    \/ DrainDrop

Spec == Init /\ [][Next]_vars

\* Windows that are only read by position
NextIndex ==
    \/ \E range \in Ranges : New(range)
    \/ DropWindow
    \/ \E index \in Indices : Index(index)
    \/ \E range \in Ranges : IndexRange(range)

SpecIndex == Init /\ [][NextIndex]_vars

\* Windows that are sorted, over a Vec of up to MaxLen + 1 elements, with any
\* elements in any order
Elements == 1..(MaxLen + 1)

InitSort ==
    /\ vec \in UNION {[1..n -> Elements] : n \in 0..(MaxLen + 1)}
    /\ wins = <<>>
    /\ drain = NoDrain
    /\ last = Call("init", TRUE, <<>>)

NextSort ==
    \/ \E range \in Ranges : New(range)
    \/ DropWindow
    \/ Sort
    \/ SortUnstable

SpecSort == InitSort /\ [][NextSort]_vars

\* Extending a window.  What an iterator hands to extend: up to MaxLen new values
Items == UNION {[1..k -> NewValues] : k \in 0..MaxLen}

\* Extend::extend of the handle i of st: self.original.extend(iter), down to
\* Vec::extend, which appends to the Vec; no window's bounds are written
RECURSIVE ExtendAt(_, _, _)
ExtendAt(st, i, items) ==
    IF i = 0
    THEN [st EXCEPT !.vec = @ \o items]
    ELSE ExtendAt(st, i - 1, items)

\* extend(items) on the innermost window
Extend(items) ==
    /\ Usable
    /\ Top > 0
    /\ Len(vec) + Len(items) <= MaxLen
    /\ LET st == ExtendAt(Now, Top, items)
       IN  Commit(st, Call("extend", st.ok, <<>>))

NextExtend ==
    \/ \E range \in Ranges : New(range)
    \/ DropWindow
    \/ \E element \in NewValues : PushBack(element)
    \/ \E items \in Items : Extend(items)

SpecExtend == Init /\ [][NextExtend]_vars

\* The bound translator on its own: any origin (start, end), whatever the Vec
\* holds, and any pair of bounds
Origins == [start : 0..MaxBound, end : 0..MaxBound]

InitTranslate ==
    /\ vec \in {[i \in 1..n |-> i] : n \in 0..MaxLen}
    /\ wins \in {<<origin>> : origin \in Origins}
    /\ drain = NoDrain
    /\ last = Call("init", TRUE, <<>>)

\* VecSlice::translate_range(range, start, end) with the origin wins[1]
TranslateRangeCall(range) ==
    /\ last' = Call("translate_range", TRUE,
                    TranslateRange(range, wins[1].start, wins[1].end))
    /\ UNCHANGED <<vec, wins, drain>>

NextTranslate == \E range \in RangeBoundsPairs : TranslateRangeCall(range)

SpecTranslate == InitTranslate /\ [][NextTranslate]_vars

\* The Drain of drain.rs: it borrows a window and holds the position start and
\* the count elements of what it still has to remove; drain then holds
\* [live, start, elements, yielded].

\* the count of a Drain that takes its end bound as included
SliceDrainElementsInclusive(start, end) == end - start + 1

\* elements: end - start
SliceDrainElements(start, end) == end - start

\* Drain::new over the window i of st: st.ret is <<start, elements>>
SliceDrainNewAt(st, i, range) ==
    LET l == LenOf(st, i)
        t == TranslateRange(range, 0, l.val)
    IN  IF l.ok /\ t[1] <= t[2] /\ t[2] <= l.val
        THEN [st EXCEPT !.ret = <<t[1], SliceDrainElements(t[1], t[2])>>]
        ELSE Panic(st)

\* Drain::next with the fields (start, elements) over the window i of st, in a
\* build that checks debug_assert: st.ret is the Option returned
SliceDrainNextAt(st, i, start, elements) ==
    LET l == LenOf(st, i)
    IN  IF ~l.ok \/ start + elements > l.val
        THEN [st |-> Panic(st), elements |-> elements]
        ELSE IF elements > 0
        THEN [st |-> RemoveAt(st, i, start), elements |-> elements - 1]
        ELSE [st |-> [st EXCEPT !.ret = <<>>], elements |-> elements]

\* for_each(|_| {}): next until it returns None; removed counts the Some
RECURSIVE SliceDrainForEach(_, _, _, _, _)
SliceDrainForEach(st, i, start, elements, removed) ==
    LET r == SliceDrainNextAt(st, i, start, elements)
    IN  IF ~r.st.ok \/ r.st.ret = <<>>
        THEN [st |-> r.st, elements |-> r.elements, removed |-> removed]
        ELSE SliceDrainForEach(r.st, i, start, r.elements, removed + 1)

\* Drain::new(window, range)
SliceDrainNew(range) ==
    /\ Usable
    /\ Top > 0
    /\ LET st == SliceDrainNewAt(Now, Top, range)
       IN  /\ drain' = IF st.ok
                       THEN [live |-> TRUE, start |-> st.ret[1],
                             elements |-> st.ret[2], yielded |-> <<>>]
                       ELSE NoDrain
           /\ last' = Call("Drain::new", st.ok, <<>>)
    /\ UNCHANGED <<vec, wins>>

\* Drain::next called by the holder of the Drain
SliceDrainNext ==
    /\ drain.live
    /\ LET r == SliceDrainNextAt(Now, Top, drain.start, drain.elements)
       IN  /\ vec' = r.st.vec
           /\ wins' = r.st.wins
           /\ drain' = [drain EXCEPT !.elements = r.elements,
                                     !.yielded = IF r.st.ok THEN @ \o r.st.ret ELSE @]
           /\ last' = Call("Drain::next", r.st.ok, r.st.ret)

\* Drop for Drain: the clean-up loop, then the borrow of the window ends; last
\* keeps what the Drain had yielded and the number the loop removed
SliceDrainDrop ==
    /\ drain.live
    /\ LET r == SliceDrainForEach(Now, Top, drain.start, drain.elements, 0)
       IN  /\ vec' = r.st.vec
           /\ wins' = r.st.wins
           /\ drain' = NoDrain
           /\ last' = [Call("Drain::drop", r.st.ok, drain.yielded) EXCEPT
                           !.designated = r.removed]

NextDrain ==
    \/ \E range \in Ranges : New(range)
    \/ DropWindow
    \/ \E range \in Ranges : SliceDrainNew(range)
    \/ SliceDrainNext
    \/ SliceDrainDrop

SpecDrain == Init /\ [][NextDrain]_vars

----------------------------------------------------------------------------
\* What the claims speak of

Post == St(wins', vec')

\* the elements the window i of st shows
Contents(st, i) == AsSlice(st, i).val

\* the elements of the Vec before and after the window i of st
Before(st, i) == SubSeq(st.vec, 1, Offset(st, i))
After(st, i) == SubSeq(st.vec, Offset(st, i) + LenOf(st, i).val + 1, Len(st.vec))

\* the bounds a range denotes on a sequence of len elements:
\* .. is (0, len), s.. is (s, len), ..e is (0, e), s..e is (s, e), s..=e is (s, e + 1)
Lower(range) ==
    IF range.start_bound.kind = "Unbounded" THEN 0 ELSE range.start_bound.n
Upper(range, len) ==
    CASE range.end_bound.kind = "Unbounded" -> len
      [] range.end_bound.kind = "Excluded" -> range.end_bound.n
      [] range.end_bound.kind = "Included" -> range.end_bound.n + 1

\* C2: a window made with a range whose bounds satisfy lo <= hi <= len(v), read
\* right after its construction, shows v[lo..hi] and has length hi - lo; the head
\* window 0..0 and the tail window len..len are empty.
C2_NewShowsSubsequence ==
    [][last'.op = "new" => \A range \in Ranges :
        LET v == Contents(Now, Top)
            lo == Lower(range)
            hi == Upper(range, Len(v))
        IN  New(range) /\ lo <= hi /\ hi <= Len(v) =>
                /\ last'.status = "ok"
                /\ Len(wins') = Top + 1
                /\ AsSlice(Post, Top + 1).ok
                /\ Contents(Post, Top + 1) = SeqSlice(v, lo, hi)
                /\ LenOf(Post, Top + 1) = [ok |-> TRUE, val |-> hi - lo]
                /\ range \in {Range(0, 0), Range(Len(v), Len(v))} =>
                       Contents(Post, Top + 1) = <<>>
      ]_vars

\* a window of a window was just made and shows some but not all of its backing
C2_Witness ==
    /\ last.op = "new"
    /\ last.status = "ok"
    /\ Top = 2
    /\ WellFormed(Now, Top)
    /\ Contents(Now, 2) # <<>>
    /\ Len(Contents(Now, 2)) < Len(Contents(Now, 1))

\* C3: on a window with start <= end <= backing.len(),
\* insert(index, value) with index <= length() puts value at window position
\* index, keeps the other window elements in order (those from index on one
\* later), grows the window and the Vec by one and leaves the Vec outside the
\* window as it was; push_back on a window starting at 0 puts the element after
\* the window's elements and before all the other elements of the Vec.
C3_InsertPlacesElement ==
    [][/\ last'.op = "insert" => \A index \in Indices, element \in NewValues :
            Insert(index, element) /\ WellFormed(Now, Top)
                                   /\ index <= LenOf(Now, Top).val =>
                /\ last'.status = "ok"
                /\ AsSlice(Post, Top).ok
                /\ Contents(Post, Top) = SeqInsert(Contents(Now, Top), index, element)
                /\ LenOf(Post, Top).val = LenOf(Now, Top).val + 1
                /\ Len(vec') = Len(vec) + 1
                /\ Before(Post, Top) = Before(Now, Top)
                /\ After(Post, Top) = After(Now, Top)
       /\ last'.op = "push_back" => \A element \in NewValues :
            PushBack(element) /\ Top = 1 /\ wins[1].start = 0 =>
                /\ last'.status = "ok"
                /\ Contents(Post, 1) = Append(Contents(Now, 1), element)
                /\ vec' = Contents(Now, 1) \o <<element>> \o After(Now, 1)
      ]_vars

\* an insert was made on a window that has Vec elements outside it
C3_Witness ==
    /\ last.op = "insert"
    /\ last.status = "ok"
    /\ WellFormed(Now, Top)
    /\ Len(vec) > LenOf(Now, Top).val

\* C4: on a window with start <= end <= backing.len(),
\* remove(index) with index < length() returns the element at window
\* position index, shrinks the window and the Vec by one, keeps the other window
\* elements in order and leaves the Vec outside the window as it was.
C4_RemoveTakesElement ==
    [][last'.op = "remove" => \A index \in Indices :
        Remove(index) /\ WellFormed(Now, Top) /\ index < LenOf(Now, Top).val =>
            /\ last'.status = "ok"
            /\ last'.ret = <<Contents(Now, Top)[index + 1]>>
            /\ AsSlice(Post, Top).ok
            /\ Contents(Post, Top) = SeqRemove(Contents(Now, Top), index)
            /\ LenOf(Post, Top).val = LenOf(Now, Top).val - 1
            /\ Len(vec') = Len(vec) - 1
            /\ Before(Post, Top) = Before(Now, Top)
            /\ After(Post, Top) = After(Now, Top)
      ]_vars

\* a remove returned an element and the Vec keeps elements outside the window
C4_Witness ==
    /\ last.op = "remove"
    /\ last.status = "ok"
    /\ last.ret # <<>>
    /\ WellFormed(Now, Top)
    /\ Len(vec) > LenOf(Now, Top).val

\* C10: insert(index, value) with index > length() panics before anything is
\* done: no window of the chain and no element of the Vec changes.
C10_InsertPastEndAborts ==
    [][last'.op = "insert" => \A index \in Indices, element \in NewValues :
        Insert(index, element) /\ index > LenOf(Now, Top).val =>
            /\ last'.status = "panic"
            /\ wins' = wins
            /\ vec' = vec
      ]_vars

\* an insert on a window of a window panicked though the Vec had room after it
C10_Witness ==
    /\ last.op = "insert"
    /\ last.status = "panic"
    /\ Top = 2
    /\ WellFormed(Now, Top)
    /\ After(Now, Top) # <<>>

\* the chain of windows a live Drain was made through, as it was before the call
Drained == St(drain.wins0, vec)

\* C5: drain(a..b) with a <= b <= length() takes exactly b - a elements out of
\* the Vec and b - a off the window's length, the same whether the Drain is
\* consumed to its end, advanced fewer than b - a times and dropped, or dropped
\* at once.
C5_DrainRemovesExactly ==
    [][/\ last'.op = "drain" /\ WellFormed(Now, Top) =>
            LET len == LenOf(Now, Top).val
            IN  \A range \in Ranges :
                    LET a == Lower(range)
                        b == Upper(range, len)
                    IN  a <= b /\ b <= len /\ DrainCall(range) =>
                            /\ last'.status = "ok"
                            /\ drain'.live
                            /\ drain'.hi - drain'.lo = b - a
                            /\ LenOf(Post, Top).val = len - (b - a)
                            /\ vec' = vec
       /\ DrainNext => vec' = vec /\ wins' = wins
       /\ DrainDrop /\ Len(drain.yielded) \in 0..(drain.hi - drain.lo) =>
            /\ Len(vec') = Len(vec) - (drain.hi - drain.lo)
            /\ LenOf(Post, Top).val = LenOf(Drained, Top).val - (drain.hi - drain.lo)
            /\ ~drain'.live
      ]_vars

\* a Drain of two elements was dropped after it had yielded one
C5_Witness ==
    /\ last.op = "drain_drop"
    /\ last.designated = 2
    /\ Len(last.ret) = 1
    /\ WellFormed(Now, Top)

\* C6: a drain(a..b) with a <= b <= length() that is consumed to its end yields
\* the elements of window positions a .. b-1 in order, and leaves the window with
\* its old positions [0, a) and [b, len) and the Vec with just those b - a
\* elements gone and the others in order.
C6_DrainYieldsRange ==
    [][/\ last'.op = "drain" /\ WellFormed(Now, Top) =>
            LET len == LenOf(Now, Top).val
                off == Offset(Now, Top)
            IN  \A range \in Ranges :
                    LET a == Lower(range)
                        b == Upper(range, len)
                    IN  a <= b /\ b <= len /\ DrainCall(range) =>
                            /\ last'.status = "ok"
                            /\ drain'.lo = off + a
                            /\ drain'.hi = off + b
       /\ LET a == drain.lo - Offset(Drained, Top)
              b == drain.hi - Offset(Drained, Top)
              k == Len(drain.yielded)
              valid == drain.live /\ a <= b /\ b <= LenOf(Drained, Top).val
          IN  /\ DrainNext /\ valid /\ k < b - a =>
                    last'.ret = <<Contents(Drained, Top)[a + k + 1]>>
              /\ DrainNext /\ valid /\ k = b - a => last'.ret = <<>>
              /\ DrainDrop /\ valid /\ k = b - a =>
                    /\ last'.ret = SeqSlice(Contents(Drained, Top), a, b)
                    /\ AsSlice(Post, Top).ok
                    /\ Contents(Post, Top) = SeqCut(Contents(Drained, Top), a, b)
                    /\ vec' = SeqCut(vec, drain.lo, drain.hi)
                    /\ Before(Post, Top) = Before(Drained, Top)
                    /\ After(Post, Top) = After(Drained, Top)
      ]_vars

\* a Drain that yielded all its elements was dropped and the Vec keeps elements
C6_Witness ==
    /\ last.op = "drain_drop"
    /\ last.designated >= 1
    /\ Len(last.ret) = last.designated
    /\ WellFormed(Now, Top)
    /\ vec # <<>>

\* the calls that change a window's contents, each complete on its own
Mutators == {"insert", "push_back", "push_front", "remove", "pop_back", "pop_front"}

\* C1: after every call through a window, panicked or not, the window has
\* start <= end <= backing.len(), and end - start has changed by the number of
\* elements the call added to, less the number it took out of, the Vec (so that
\* it is the length at construction plus the elements added less those removed).
C1_WindowBoundsFollowCalls ==
    [][/\ last'.op \in Mutators \/ (last'.op = "drain" /\ last'.status = "panic") =>
            /\ WellFormed(Post, Top)
            /\ LenOf(Post, Top).val - LenOf(Now, Top).val = Len(vec') - Len(vec)
       /\ last'.op = "drain_drop" =>
            /\ WellFormed(Post, Top)
            /\ LenOf(Post, Top).val - LenOf(Drained, Top).val = Len(vec') - Len(vec)
      ]_vars

\* C7: constructing a window whose translated bounds have start > end or
\* end > backing.len() panics, and no window is made.
C7_NewRejectsBadBounds ==
    [][last'.op = "new" => \A range \in Ranges :
        LET t == TranslateRange(range, 0, LenOf(Now, Top).val)
        IN  New(range) /\ (t[1] > t[2] \/ t[2] > LenOf(Now, Top).val) =>
                /\ last'.status = "panic"
                /\ wins' = wins
      ]_vars

\* C8: remove(index) with index >= length() panics and leaves the bounds of
\* every window and the Vec as they were.
C8_RemovePastEndAborts ==
    [][last'.op = "remove" => \A index \in Indices :
        Remove(index) /\ index >= LenOf(Now, Top).val =>
            /\ last'.status = "panic"
            /\ wins' = wins
            /\ vec' = vec
      ]_vars

\* C9: drain(range) whose translated bounds (lo, hi) do not satisfy
\* start <= lo <= hi <= end panics and leaves the window's end and the Vec as
\* they were; a Drain never takes an element outside the window out of the Vec.
C9_DrainRejectsBadRange ==
    [][/\ last'.op = "drain" => \A range \in Ranges :
            LET w == wins[Top]
                t == TranslateRange(range, w.start, w.end)
            IN  DrainCall(range) /\ ~(w.start <= t[1] /\ t[1] <= t[2] /\ t[2] <= w.end) =>
                    /\ last'.status = "panic"
                    /\ wins' = wins
                    /\ vec' = vec
       /\ last'.op = "drain_drop" =>
            /\ Before(Drained, Top) = SubSeq(vec', 1, Offset(Drained, Top))
            /\ After(Drained, Top) =
                   SubSeq(vec', Len(vec') - Len(After(Drained, Top)) + 1, Len(vec'))
      ]_vars

\* C11: on a window with start <= end <= backing.len(), pop_back() and
\* pop_front() return None on an empty window and change nothing; otherwise
\* pop_back() returns Some of the last window element and pop_front() Some of
\* the first, and the window and the Vec each lose exactly that one element.
C11_PopTakesEndElement ==
    [][/\ PopBack /\ WellFormed(Now, Top) =>
            LET c == Contents(Now, Top)
            IN  /\ last'.status = "ok"
                /\ c = <<>> => last'.ret = <<>> /\ wins' = wins /\ vec' = vec
                /\ c # <<>> =>
                    /\ last'.ret = <<c[Len(c)]>>
                    /\ AsSlice(Post, Top).ok
                    /\ Contents(Post, Top) = SubSeq(c, 1, Len(c) - 1)
                    /\ vec' = Before(Now, Top) \o SubSeq(c, 1, Len(c) - 1) \o After(Now, Top)
                    /\ wins'[Top].start = wins[Top].start
       /\ PopFront /\ WellFormed(Now, Top) =>
            LET c == Contents(Now, Top)
            IN  /\ last'.status = "ok"
                /\ c = <<>> => last'.ret = <<>> /\ wins' = wins /\ vec' = vec
                /\ c # <<>> =>
                    /\ last'.ret = <<c[1]>>
                    /\ AsSlice(Post, Top).ok
                    /\ Contents(Post, Top) = SubSeq(c, 2, Len(c))
                    /\ vec' = Before(Now, Top) \o SubSeq(c, 2, Len(c)) \o After(Now, Top)
                    /\ wins'[Top].start = wins[Top].start
      ]_vars

\* a pop_back on a window of a window returned its last element and left another
C11_Witness ==
    /\ last.op = "pop_back"
    /\ last.ret # <<>>
    /\ Top = 2
    /\ WellFormed(Now, Top)
    /\ Contents(Now, Top) # <<>>

\* C12: on a window with start <= end <= backing.len(), the pop_back() that
\* follows a push_back(x) at once returns Some(x) and leaves every window bound
\* and the Vec exactly as they were before the push_back.
C12_PushBackPopBackRestores ==
    [][/\ last'.op = "push_back" /\ WellFormed(Now, Top) =>
            \A element \in NewValues :
                PushBack(element) =>
                    LET popped == PopBackAt(Post, Top)
                    IN  /\ last'.status = "ok"
                        /\ WellFormed(Post, Top)
                        /\ popped.ok
                        /\ popped.ret = <<element>>
                        /\ popped.wins = wins
                        /\ popped.vec = vec
       /\ PopBack =>
            LET popped == PopBackAt(Now, Top)
            IN  /\ wins' = popped.wins
                /\ vec' = popped.vec
                /\ last'.ret = popped.ret
                /\ last'.status = "ok" <=> popped.ok
      ]_vars

\* a push_back was made on a window of a window that has Vec elements after it
C12_Witness ==
    /\ last.op = "push_back"
    /\ last.status = "ok"
    /\ Top = 2
    /\ WellFormed(Now, Top)
    /\ After(Now, Top) # <<>>
    /\ PopBackAt(Now, Top).ret # <<>>

\* C13: vecslice_at_tail() makes an empty window with start = end =
\* backing.len(); a push_back on a window whose end is backing.len() appends
\* to the backing value, whose earlier elements keep their positions, leaves the
\* window's end equal to backing.len() and puts the element after the window's
\* earlier ones: the window shows the pushed elements in push order.
C13_TailPushBackAppends ==
    [][/\ VecsliceAtTail /\ WellFormed(Now, Top) =>
            /\ last'.status = "ok"
            /\ Len(wins') = Top + 1
            /\ wins'[Top + 1].start = Len(Contents(Now, Top))
            /\ wins'[Top + 1].end = Len(Contents(Now, Top))
            /\ Contents(Post, Top + 1) = <<>>
       /\ last'.op = "push_back" /\ WellFormed(Now, Top)
                                 /\ wins[Top].end = LenOf(Now, Top - 1).val =>
            \A element \in NewValues :
                PushBack(element) =>
                    /\ last'.status = "ok"
                    /\ Contents(Post, Top - 1) = Append(Contents(Now, Top - 1), element)
                    /\ wins'[Top].start = wins[Top].start
                    /\ wins'[Top].end = LenOf(Post, Top - 1).val
                    /\ Contents(Post, Top) = Append(Contents(Now, Top), element)
      ]_vars

\* the second push_back on a window at the tail of its backing value
C13_Witness ==
    /\ last.op = "push_back"
    /\ last.status = "ok"
    /\ Top > 0
    /\ WellFormed(Now, Top)
    /\ wins[Top].end = LenOf(Now, Top - 1).val
    /\ Contents(Now, Top) \in {<<8, 9>>, <<9, 8>>}

\* C14: a window made with a range denoting [a, b) over a window [s, e) of the
\* Vec, b <= e - s, shows the same elements as a window made with s+a..s+b over
\* the Vec itself: the elements s+a .. s+b-1 of the Vec.
C14_NestedWindowReadsDirect ==
    [][last'.op = "new" /\ Top = 1 /\ WellFormed(Now, Top) =>
        \A range \in Ranges :
            LET s == wins[1].start
                e == wins[1].end
                a == Lower(range)
                b == Upper(range, e - s)
                direct == NewAt(Now, 0, Range(s + a, s + b))
            IN  a <= b /\ b <= e - s /\ New(range) =>
                    /\ Len(wins') = 2
                    /\ AsSlice(Post, 2).ok
                    /\ AsSlice(direct, 1).ok
                    /\ Contents(Post, 2) = Contents(direct, 1)
                    /\ Contents(Post, 2) = SubSeq(vec, s + a + 1, s + b)
      ]_vars

\* a non-empty window was made over a window that does not start at 0
C14_Witness ==
    /\ last.op = "new"
    /\ last.status = "ok"
    /\ Top = 2
    /\ WellFormed(Now, Top)
    /\ wins[1].start > 0
    /\ Contents(Now, 2) # <<>>

\* C15: on a window with start <= end <= backing.len(), clear() leaves the
\* window empty with its start unchanged and takes exactly the window's elements
\* out of the Vec, the elements before and after the window staying in order;
\* a drain(..) whose Drain is dropped ends in the same state.
C15_ClearEmptiesWindow ==
    [][/\ Clear /\ WellFormed(Now, Top) =>
            /\ last'.status = "ok"
            /\ WellFormed(Post, Top)
            /\ Contents(Post, Top) = <<>>
            /\ wins'[Top].start = wins[Top].start
            /\ wins'[Top].end = wins[Top].start
            /\ vec' = Before(Now, Top) \o After(Now, Top)
            /\ Before(Post, Top) = Before(Now, Top)
            /\ After(Post, Top) = After(Now, Top)
       /\ last'.op = "drain" /\ DrainCall(RangeFull) /\ WellFormed(Now, Top) =>
            /\ last'.status = "ok"
            /\ drain'.lo = Offset(Now, Top)
            /\ drain'.hi = Offset(Now, Top) + LenOf(Now, Top).val
            /\ wins' = ClearAt(Now, Top).wins
       /\ DrainDrop /\ WellFormed(Drained, Top)
                    /\ drain.lo = Offset(Drained, Top)
                    /\ drain.hi = Offset(Drained, Top) + LenOf(Drained, Top).val =>
            /\ wins' = ClearAt(Drained, Top).wins
            /\ vec' = ClearAt(Drained, Top).vec
      ]_vars

\* a clear took elements out of a Vec that keeps others
C15_Witness ==
    /\ last.op = "clear"
    /\ last.status = "ok"
    /\ last.designated >= 1
    /\ WellFormed(Now, Top)
    /\ vec # <<>>

\* C16: a read by position never reaches past the window: slice[index] with
\* index >= length() panics, and so does &slice[range] when the translated
\* upper bound is greater than end.
C16_IndexStaysInWindow ==
    [][/\ last'.op = "index" => \A index \in Indices :
            Index(index) /\ index >= LenOf(Now, Top).val => last'.status = "panic"
       /\ last'.op = "index_range" => \A range \in Ranges :
            LET t == TranslateRange(range, wins[Top].start, wins[Top].end)
            IN  IndexRange(range) /\ t[2] > wins[Top].end => last'.status = "panic"
      ]_vars

\* s is in ascending order
Ascending(s) == \A j \in 1..(Len(s) - 1) : s[j] <= s[j + 1]

\* s and r hold the same elements the same number of times
SameElements(s, r) ==
    /\ Len(s) = Len(r)
    /\ \A x \in {s[j] : j \in 1..Len(s)} \cup {r[j] : j \in 1..Len(r)} :
           Cardinality({j \in 1..Len(s) : s[j] = x})
               = Cardinality({j \in 1..Len(r) : r[j] = x})

\* C17: on a window with start <= end <= backing.len(), sort() and
\* sort_unstable() leave the window's elements an ascending permutation of what
\* they were, leave start and end unchanged and leave every element of the Vec
\* outside the window at its position with its value.
C17_SortStaysInWindow ==
    [][(Sort \/ SortUnstable) /\ WellFormed(Now, Top) =>
            LET off == Offset(Now, Top)
                len == LenOf(Now, Top).val
            IN  /\ last'.status = "ok"
                /\ wins' = wins
                /\ Ascending(Contents(Post, Top))
                /\ SameElements(Contents(Post, Top), Contents(Now, Top))
                /\ Len(vec') = Len(vec)
                /\ \A k \in 1..Len(vec) :
                       (k <= off \/ k > off + len) => vec'[k] = vec[k]
      ]_vars

\* a sort moved elements of a window that leaves an element of the Vec outside
C17_Witness ==
    /\ last.op \in {"sort", "sort_unstable"}
    /\ last.status = "ok"
    /\ last.designated >= 2
    /\ WellFormed(Now, Top)
    /\ Len(Contents(Now, Top)) >= 2
    /\ Len(vec) > Len(Contents(Now, Top))

C19_DrainAdjustsEndAtCall ==
    [][/\ last'.op = "drain" /\ last'.status = "ok" =>
            /\ drain'.live
            /\ drain'.yielded = <<>>
            /\ vec' = vec
            /\ \A j \in 1..Top :
                /\ wins'[j].start = wins[j].start
                /\ wins'[j].end = wins[j].end - (drain'.hi - drain'.lo)
       /\ DrainNext => wins' = wins /\ vec' = vec
       /\ DrainDrop =>
            /\ wins' = wins
            /\ wins'[Top].start = drain.wins0[Top].start
            /\ wins'[Top].end = drain.wins0[Top].end - (drain.hi - drain.lo)
            /\ LenOf(Post, Top).val = LenOf(Drained, Top).val - (drain.hi - drain.lo)
            /\ Len(vec') = Len(vec) - (drain.hi - drain.lo)
      ]_vars

\* drain has returned a Drain of two elements that was not advanced yet: the
\* window is already empty and the Vec still holds the two elements
C19_Witness ==
    /\ last.op = "drain"
    /\ drain.live
    /\ drain.yielded = <<>>
    /\ drain.hi - drain.lo = 2
    /\ WellFormed(Drained, Top)
    /\ wins[Top].end = drain.wins0[Top].end - 2
    /\ Len(vec) >= wins[Top].end + 2

\* C20: every insert, remove or drain made through a window of a window
\* reaches the Vec at the sum of the two starts plus the index given, changes
\* the end of the outer window by as much as the end of the inner one, and
\* leaves start <= end <= backing.len() at both levels.
C20_NestedCallsAddStarts ==
    [][Top = 2 /\ WellFormed(Now, Top) =>
        /\ last'.op \in {"insert", "remove", "drain"} => WellFormed(Post, Top)
        /\ last'.op = "insert" /\ last'.status = "ok" =>
            \A index \in Indices, element \in NewValues :
                Insert(index, element) =>
                    /\ vec' = SeqInsert(vec, wins[1].start + wins[2].start + index, element)
                    /\ wins'[1].end - wins[1].end = wins'[2].end - wins[2].end
        /\ last'.op = "remove" /\ last'.status = "ok" =>
            \A index \in Indices :
                Remove(index) =>
                    /\ vec' = SeqRemove(vec, wins[1].start + wins[2].start + index)
                    /\ wins'[1].end - wins[1].end = wins'[2].end - wins[2].end
        /\ last'.op = "drain" /\ last'.status = "ok" =>
            \A range \in Ranges :
                DrainCall(range) =>
                    /\ drain'.lo = wins[1].start + wins[2].start + Lower(range)
                    /\ wins'[1].end - wins[1].end = wins'[2].end - wins[2].end
      ]_vars

\* The same for the calls that meet their preconditions: insert with
\* index <= length(), remove with index < length(), drain with a <= b <= length().
C20_ValidNestedCallsAddStarts ==
    [][Top = 2 /\ WellFormed(Now, Top) =>
        LET len == LenOf(Now, Top).val
        IN  /\ last'.op = "insert" =>
                \A index \in Indices, element \in NewValues :
                    index <= len /\ Insert(index, element) =>
                        /\ last'.status = "ok"
                        /\ WellFormed(Post, Top)
                        /\ vec' = SeqInsert(vec, wins[1].start + wins[2].start + index, element)
                        /\ wins'[1].end - wins[1].end = 1
                        /\ wins'[2].end - wins[2].end = 1
            /\ last'.op = "remove" =>
                \A index \in Indices :
                    index < len /\ Remove(index) =>
                        /\ last'.status = "ok"
                        /\ WellFormed(Post, Top)
                        /\ vec' = SeqRemove(vec, wins[1].start + wins[2].start + index)
                        /\ wins'[1].end - wins[1].end = -1
                        /\ wins'[2].end - wins[2].end = -1
            /\ last'.op = "drain" =>
                \A range \in Ranges :
                    LET a == Lower(range)
                        b == Upper(range, len)
                    IN  a <= b /\ b <= len /\ DrainCall(range) =>
                            /\ last'.status = "ok"
                            /\ drain'.lo = wins[1].start + wins[2].start + a
                            /\ drain'.hi = wins[1].start + wins[2].start + b
                            /\ wins'[1].end - wins[1].end = a - b
                            /\ wins'[2].end - wins[2].end = a - b
                            /\ wins'[2].start <= wins'[2].end
                            /\ wins'[2].end <= wins'[1].end - wins'[1].start
                            /\ wins'[1].start <= wins'[1].end
                            /\ wins'[1].end <= Len(vec) - (b - a)
      ]_vars

\* C21: translate_range returns lo = origin_start + s for an included start
\* bound s, origin_start + s + 1 for an excluded one and origin_start for none,
\* and hi = origin_start + e + 1 for an included end bound e, origin_start + e
\* for an excluded one and origin_end for none, never the length of the Vec; it
\* returns the pair whatever it is, inverted or past the origin's end included.
C21_TranslateRangeAddsOrigin ==
    [][\A range \in RangeBoundsPairs :
        TranslateRangeCall(range) =>
            LET origin_start == wins[1].start
                origin_end == wins[1].end
                sb == range.start_bound
                eb == range.end_bound
                lo == CASE sb.kind = "Included" -> origin_start + sb.n
                        [] sb.kind = "Excluded" -> origin_start + sb.n + 1
                        [] sb.kind = "Unbounded" -> origin_start
                hi == CASE eb.kind = "Included" -> origin_start + eb.n + 1
                        [] eb.kind = "Excluded" -> origin_start + eb.n
                        [] eb.kind = "Unbounded" -> origin_end
            IN  /\ last'.status = "ok"
                /\ last'.ret = <<lo, hi>>
      ]_vars

\* translate_range has returned an inverted pair: lo from the excluded start
\* bound MaxBound, hi the origin's end, which is not the length of the Vec
C21_Witness ==
    /\ last.op = "translate_range"
    /\ last.status = "ok"
    /\ last.ret[1] = wins[1].start + MaxBound + 1
    /\ last.ret[2] = wins[1].end
    /\ wins[1].end # Len(vec)
    /\ last.ret[2] < last.ret[1]

\* push_back of each of the items in order on the handle i of st
RECURSIVE PushBackEach(_, _, _)
PushBackEach(st, i, items) ==
    IF items = <<>> \/ ~st.ok
    THEN st
    ELSE PushBackEach(PushBackAt(st, i, Head(items)), i, Tail(items))

\* C22: extend with k items on a window leaves what push_back of each item in
\* order leaves: the window is k longer, the items are its last k elements, at
\* the positions [old end, old end + k) of what it is a window of, and the
\* elements that followed the window follow the new ones in the same order.
C22_ExtendPushesBackEach ==
    [][last'.op = "extend" /\ WellFormed(Now, Top) =>
        \A items \in Items :
            Extend(items) =>
                LET k == Len(items)
                    pushed == PushBackEach(Now, Top, items)
                IN  /\ last'.status = "ok"
                    /\ vec' = pushed.vec
                    /\ wins' = pushed.wins
                    /\ Len(Contents(Post, Top)) = Len(Contents(Now, Top)) + k
                    /\ Contents(Post, Top) = Contents(Now, Top) \o items
                    /\ Before(Post, Top) = Before(Now, Top)
                    /\ After(Post, Top) = After(Now, Top)
      ]_vars

\* C23: a Drain made by Drain::new, whose range was validated, has
\* start + elements <= the window's length at every call of next, those of the
\* clean-up loop of its destructor included; a next that yields an element
\* takes 1 off elements, next returns None exactly when elements is 0, and the
\* clean-up loop ends after exactly elements removals.
C23_DrainStaysInWindow ==
    [][/\ last'.op = "Drain::next" =>
            /\ drain.start + drain.elements <= Len(Contents(Now, Top))
            /\ last'.status = "ok"
            /\ last'.ret = <<>> <=> drain.elements = 0
            /\ last'.ret # <<>> =>
                /\ drain'.elements = drain.elements - 1
                /\ drain'.start = drain.start
                /\ last'.ret = <<Contents(Now, Top)[drain.start + 1]>>
                /\ Len(Contents(Post, Top)) = Len(Contents(Now, Top)) - 1
            /\ drain'.start + drain'.elements <= Len(Contents(Post, Top))
       /\ last'.op = "Drain::drop" =>
            /\ drain.start + drain.elements <= Len(Contents(Now, Top))
            /\ last'.status = "ok"
            /\ last'.designated = drain.elements
            /\ Len(Contents(Post, Top)) = Len(Contents(Now, Top)) - drain.elements
            /\ Contents(Post, Top) =
                   SeqCut(Contents(Now, Top), drain.start, drain.start + drain.elements)
      ]_vars

\* a Drain over a window of a window has yielded an element through next and
\* was then dropped with elements left, which its clean-up loop removed
C23_Witness ==
    /\ last.op = "Drain::drop"
    /\ last.status = "ok"
    /\ Top = 2
    /\ Len(last.ret) >= 1
    /\ last.designated >= 1

====
